---- MODULE Spec2Model ----
(***************************************************************************)
(* Model of the content-change monitoring engine of src/website-monitor.py *)
(* (fetch -> extract -> diff -> store -> notify, single pass and daemon).   *)
(*                                                                         *)
(* A text (a Python str) is a sequence of tokens.  A token is either a     *)
(* whitespace character (" ", "\n"), a word (a maximal run of              *)
(* non-whitespace characters, kept atomic), or a markup tag.  An optional  *)
(* value (a Python str-or-None, a file that may not exist) is the empty    *)
(* tuple for None/absent and a one-element tuple <<t>> for the value t.    *)
(***************************************************************************)
EXTENDS Integers, Sequences, FiniteSets, TLC

\* ------------------------------------------------------------------------
\* Optional values and Python truthiness
\* ------------------------------------------------------------------------
None == <<>>

Some(t) == <<t>>

\* Python's "not x" for x a str or None: None and "" are both falsy.
Falsy(x) == x = None \/ x[1] = <<>>

\* ------------------------------------------------------------------------
\* Text helpers (str.splitlines, '\n'.join, re.sub(r'\s+', ' ', s).strip())
\* ------------------------------------------------------------------------
IsSpace(c) == c \in {" ", "\n"}

RECURSIVE CollapseSpace(_)
\* re.sub(r'\s+', ' ', t): every maximal whitespace run becomes one " ".
CollapseSpace(t) ==
    IF t = <<>> THEN <<>>
    ELSE IF IsSpace(Head(t))
         THEN IF Len(t) > 1 /\ IsSpace(t[2])
              THEN CollapseSpace(Tail(t))
              ELSE <<" ">> \o CollapseSpace(Tail(t))
         ELSE <<Head(t)>> \o CollapseSpace(Tail(t))

RECURSIVE LStrip(_)
LStrip(t) == IF t # <<>> /\ IsSpace(Head(t)) THEN LStrip(Tail(t)) ELSE t

RECURSIVE RStrip(_)
RStrip(t) ==
    IF t # <<>> /\ IsSpace(t[Len(t)]) THEN RStrip(SubSeq(t, 1, Len(t) - 1)) ELSE t

\* str.strip()
Strip(t) == RStrip(LStrip(t))

RECURSIVE CollapsePairs(_)
\* re.sub(r'\s\s?', ' ', t): whitespace becomes " " two characters at a time.
CollapsePairs(t) ==
    IF t = <<>> THEN <<>>
    ELSE IF IsSpace(Head(t))
         THEN IF Len(t) > 1 /\ IsSpace(t[2])
              THEN <<" ">> \o CollapsePairs(SubSeq(t, 3, Len(t)))
              ELSE <<" ">> \o CollapsePairs(Tail(t))
         ELSE <<Head(t)>> \o CollapsePairs(Tail(t))

\* NormalizeSpace with whitespace collapsed in pairs, not in whole runs.
NormalizeSpacePairs(t) == Strip(CollapsePairs(t))

NormalizeSpace(t) == Strip(CollapseSpace(t))

RECURSIVE SplitFrom(_, _)
\* The lines of t, cur being the line read so far; a final line break opens
\* no further line (str.splitlines).
SplitFrom(t, cur) ==
    IF t = <<>> THEN (IF cur = <<>> THEN <<>> ELSE <<cur>>)
    ELSE IF Head(t) = "\n"
         THEN <<cur>> \o SplitFrom(Tail(t), <<>>)
         ELSE SplitFrom(Tail(t), Append(cur, Head(t)))

splitlines(t) == SplitFrom(t, <<>>)

RECURSIVE JoinLines(_)
\* '\n'.join(ls)
JoinLines(ls) ==
    IF ls = <<>> THEN <<>>
    ELSE IF Len(ls) = 1 THEN ls[1]
    ELSE ls[1] \o <<"\n">> \o JoinLines(Tail(ls))

\* ------------------------------------------------------------------------
\* compute_diff: difflib.Differ over the line lists, keeping '- ' and '+ '
\* ------------------------------------------------------------------------
Min(x, y) == IF x <= y THEN x ELSE y

\* Every block a[i..i+k-1] = b[j..j+k-1] with k >= 1.
MatchingBlocks(a, b) ==
    {m \in (1..Len(a)) \X (1..Len(b)) \X (1..Min(Len(a), Len(b))) :
        /\ m[1] + m[3] - 1 <= Len(a)
        /\ m[2] + m[3] - 1 <= Len(b)
        /\ SubSeq(a, m[1], m[1] + m[3] - 1) = SubSeq(b, m[2], m[2] + m[3] - 1)}

\* SequenceMatcher.find_longest_match: the longest block, of those the one
\* starting earliest in a, of those the one starting earliest in b.
Better(m, n) ==
    \/ m[3] > n[3]
    \/ m[3] = n[3] /\ m[1] < n[1]
    \/ m[3] = n[3] /\ m[1] = n[1] /\ m[2] <= n[2]

find_longest_match(a, b) ==
    LET C == MatchingBlocks(a, b)
    IN  IF C = {} THEN <<1, 1, 0>>
        ELSE CHOOSE m \in C : \A n \in C : Better(m, n)

\* Differ._dump(tag, lines)
Dump(tag, ls) == [n \in 1..Len(ls) |-> <<tag>> \o ls[n]]

\* Differ._plain_replace, which also covers the 'delete' and 'insert'
\* opcodes (one side empty).  Differ._fancy_replace pairs similar lines of a
\* replace block and adds '? ' hint lines; line 317 drops the hints, and the
\* pairing only reorders the same '- ' and '+ ' lines.
plain_replace(a, b) ==
    IF Len(b) < Len(a)
    THEN Dump("+ ", b) \o Dump("- ", a)
    ELSE Dump("- ", a) \o Dump("+ ", b)

RECURSIVE DifferChanges(_, _)
\* The '- ' and '+ ' lines of Differ().compare(a, b): get_matching_blocks
\* splits around the longest match, and the gaps between matches become
\* replace/delete/insert opcodes; 'equal' lines are filtered out.
DifferChanges(a, b) ==
    IF a = <<>> /\ b = <<>> THEN <<>>
    ELSE LET m == find_longest_match(a, b)
         IN  IF m[3] = 0 THEN plain_replace(a, b)
             ELSE DifferChanges(SubSeq(a, 1, m[1] - 1), SubSeq(b, 1, m[2] - 1))
                  \o DifferChanges(SubSeq(a, m[1] + m[3], Len(a)),
                                   SubSeq(b, m[2] + m[3], Len(b)))

\* compute_diff without the matching: every line is taken as replaced.
compute_diff_unmatched(old_content, new_content) ==
    IF Falsy(old_content) \/ Falsy(new_content) THEN None
    ELSE LET changes == plain_replace(splitlines(old_content[1]),
                                      splitlines(new_content[1]))
         IN  IF changes = <<>> THEN None ELSE Some(JoinLines(changes))

compute_diff(old_content, new_content) ==
    IF Falsy(old_content) \/ Falsy(new_content) THEN None
    ELSE LET changes == DifferChanges(splitlines(old_content[1]),
                                      splitlines(new_content[1]))
         IN  IF changes = <<>> THEN None ELSE Some(JoinLines(changes))

\* ------------------------------------------------------------------------
\* extract_content: parse, select, filter, strip markup, normalise
\* ------------------------------------------------------------------------
OpenTags == {"<div id=content>", "<p>", "<script>"}

CloseOf(open) ==
    IF open = "<div id=content>" THEN "</div>"
    ELSE IF open = "<p>" THEN "</p>"
    ELSE "</script>"

CloseTags == {CloseOf(o) : o \in OpenTags}

Comments == {"<!--c-->"}

IsMarkup(tok) == tok \in OpenTags \cup CloseTags \cup Comments

\* Position of the first occurrence of tok in t, 0 when there is none.
IndexOf(t, tok) ==
    IF \E n \in 1..Len(t) : t[n] = tok
    THEN CHOOSE n \in 1..Len(t) : t[n] = tok /\ \A k \in 1..(n - 1) : t[k] # tok
    ELSE 0

RECURSIVE ParseHtml(_)
\* BeautifulSoup(html, 'html.parser'): a list of nodes.  An element runs to
\* its end tag, or to the end of the input when it is never closed; an end
\* tag with no open element is dropped; anything else is a text node.
ParseHtml(t) ==
    IF t = <<>> THEN <<>>
    ELSE IF Head(t) \in OpenTags
         THEN LET n == IndexOf(Tail(t), CloseOf(Head(t)))
                  body == IF n = 0 THEN Tail(t) ELSE SubSeq(Tail(t), 1, n - 1)
                  rest == IF n = 0 THEN <<>> ELSE SubSeq(Tail(t), n + 1, Len(t) - 1)
              IN  <<[open |-> Head(t), body |-> body]>> \o ParseHtml(rest)
         ELSE IF Head(t) \in CloseTags THEN ParseHtml(Tail(t))
         ELSE <<[open |-> "", body |-> <<Head(t)>>]>> \o ParseHtml(Tail(t))

\* str(element)
NodeStr(node) ==
    IF node.open = "" THEN node.body
    ELSE <<node.open>> \o node.body \o <<CloseOf(node.open)>>

RECURSIVE SoupStr(_)
\* str(soup), and ''.join(str(element) for element in elements)
SoupStr(nodes) ==
    IF nodes = <<>> THEN <<>> ELSE NodeStr(Head(nodes)) \o SoupStr(Tail(nodes))

\* The selectors of the model: the open tags a valid selector matches.
\* "[" is not a valid CSS selector: soup.select raises on it.
ValidSelectors == {"#content", "p", "body"}

SelectorTags(selector) ==
    IF selector = "#content" THEN {"<div id=content>"}
    ELSE IF selector = "p" THEN {"<p>"}
    ELSE {}

RECURSIVE SelectNodes(_, _)
\* soup.select(selector), in document order
SelectNodes(nodes, selector) ==
    IF nodes = <<>> THEN <<>>
    ELSE (IF Head(nodes).open \in SelectorTags(selector)
          THEN <<Head(nodes)>> ELSE <<>>)
         \o SelectNodes(Tail(nodes), selector)

\* The filter patterns of the model: a valid pattern matches whole tokens,
\* "HelloWorld" the word Hello with the word World right after it.
\* "(" is not a valid regular expression: re.sub raises re.error on it.
ValidPatterns == {"World", "\\d+", "HelloWorld"}

PatternTokens(pattern) ==
    IF pattern = "World" THEN {"World"}
    ELSE IF pattern = "\\d+" THEN {"42"}
    ELSE {}

\* The run of tokens a pattern matches as a whole, <<>> when it matches
\* token by token.
PatternPhrase(pattern) ==
    IF pattern = "HelloWorld" THEN <<"Hello", "World">> ELSE <<>>

StartsWith(t, prefix) ==
    Len(prefix) <= Len(t) /\ SubSeq(t, 1, Len(prefix)) = prefix

RECURSIVE re_sub_empty(_, _)
\* re.sub(pattern, '', content) for a valid pattern: the matches are taken
\* out from left to right.
re_sub_empty(pattern, content) ==
    IF content = <<>> THEN <<>>
    ELSE IF Head(content) \in PatternTokens(pattern)
         THEN re_sub_empty(pattern, Tail(content))
    ELSE IF PatternPhrase(pattern) # <<>> /\ StartsWith(content, PatternPhrase(pattern))
         THEN re_sub_empty(pattern,
                  SubSeq(content, Len(PatternPhrase(pattern)) + 1, Len(content)))
    ELSE <<Head(content)>> \o re_sub_empty(pattern, Tail(content))

RECURSIVE ApplyIgnorePatternsAbort(_, _)
\* ApplyIgnorePatterns with the try around the whole loop: the first
\* invalid pattern ends the filtering.
ApplyIgnorePatternsAbort(ignore_patterns, content) ==
    IF ignore_patterns = <<>> THEN content
    ELSE IF Head(ignore_patterns) \in ValidPatterns
         THEN ApplyIgnorePatternsAbort(Tail(ignore_patterns),
                  re_sub_empty(Head(ignore_patterns), content))
         ELSE content

RECURSIVE ApplyIgnorePatterns(_, _)
\* Lines 257-261: each pattern in turn on the previous result; an invalid
\* pattern raises re.error, which is caught, and leaves content as it is.
ApplyIgnorePatterns(ignore_patterns, content) ==
    IF ignore_patterns = <<>> THEN content
    ELSE ApplyIgnorePatterns(Tail(ignore_patterns),
            IF Head(ignore_patterns) \in ValidPatterns
            THEN re_sub_empty(Head(ignore_patterns), content)
            ELSE content)

RECURSIVE DropMarkup(_)
DropMarkup(t) ==
    IF t = <<>> THEN <<>>
    ELSE (IF IsMarkup(Head(t)) THEN <<>> ELSE <<Head(t)>>) \o DropMarkup(Tail(t))

RECURSIVE get_text(_)
\* Lines 267-275: script elements are decomposed, comments are no text,
\* get_text() joins the remaining strings.
get_text(nodes) ==
    IF nodes = <<>> THEN <<>>
    ELSE (IF Head(nodes).open = "<script>" THEN <<>>
          ELSE DropMarkup(Head(nodes).body))
         \o get_text(Tail(nodes))

\* SelectContent with a selector that matches nothing giving no content.
SelectContentMissEmpty(soup, selector) ==
    IF selector = "" THEN SoupStr(soup) ELSE SoupStr(SelectNodes(soup, selector))

\* Lines 246-254: the matched elements, or the whole document when there
\* is no selector or it matches nothing.
SelectContent(soup, selector) ==
    LET elements == IF selector = "" THEN <<>> ELSE SelectNodes(soup, selector)
    IN  IF elements = <<>> THEN SoupStr(soup) ELSE SoupStr(elements)

\* extract_content with the except branch returning no text at all.
extract_content_fail_empty(html, selector, ignore_patterns) ==
    IF selector # "" /\ selector \notin ValidSelectors
    THEN <<>>
    ELSE NormalizeSpace(get_text(ParseHtml(
             ApplyIgnorePatterns(ignore_patterns,
                 SelectContent(ParseHtml(html), selector)))))

extract_content(html, selector, ignore_patterns) ==
    IF selector # "" /\ selector \notin ValidSelectors
    THEN html   \* soup.select raised: the except branch returns the payload
    ELSE LET content == SelectContent(ParseHtml(html), selector)
             filtered == ApplyIgnorePatterns(ignore_patterns, content)
         IN  NormalizeSpace(get_text(ParseHtml(filtered)))

\* ------------------------------------------------------------------------
\* Configuration (DEFAULT_CONFIG and the target lists of the model)
\* ------------------------------------------------------------------------
check_interval == 3600

retry_count == 3

retry_delay == 5

SleepSecs == 60

\* Bounds of the model: check cycles started, failed fetch attempts and
\* daemon sleeps in one behaviour.
MaxChecks == 3

MaxFailures == 3

MaxTicks == 2

\* Writes that fail in one behaviour of the specification with a failing
\* disk.
MaxIoFaults == 1

Site(name, url, interval, active) ==
    [name |-> name, url |-> url, selector |-> "#content",
     ignore_patterns |-> <<>>, check_interval |-> interval, active |-> active]

\* The target lists a behaviour may be configured with.
SiteLists ==
    {<<Site("A", "http://a", Some(60), TRUE), Site("B", "http://b", Some(200), TRUE)>>,
     <<Site("A", "http://a", Some(60), FALSE), Site("B", "http://b", None, TRUE)>>,
     <<Site("A", "http://a", Some(0), TRUE), Site("B", "http://b", Some(200), TRUE)>>}

\* time.time() when the program starts: a host whose clock was never set
\* counts from the epoch, any other is far beyond every interval.
ClockStarts == {0, 4000}

\* What a target may serve: a page whose selected region reads "Hello",
\* one that reads "Hello World", one whose selected region is blank, and an
\* empty body.
Payloads ==
    {<<"<div id=content>", "Hello", "</div>">>,
     <<"<div id=content>", "Hello", " ", "World", "</div>">>,
     <<"<div id=content>", "</div>">>,
     <<>>}

\* The ways one attempt fails: requests.get raises (no route, timed out) or
\* raise_for_status raises on the status code.
AttemptFailures == {"timeout", "http_error", "network_unreachable"}

\* --names given to --reset
ResetNames == {"a", "HTTP://B", "nobody"}

\* ------------------------------------------------------------------------
\* State
\* ------------------------------------------------------------------------
VARIABLES
    sites,            \* config['sites']
    store,            \* data_dir: storage key -> the four slots of a record
    clock,            \* time.time()
    mode,             \* the command running: "idle" (none), "check_sites",
                      \* "reset" or "daemon"; "daemon_returned" when
                      \* run_daemon returned by itself
    pc,               \* the statement the running function is at
    idx,              \* position of the for loop over sites
    now,              \* run_daemon's now
    ticks,            \* sleeps of run_daemon so far
    checks,           \* check cycles begun so far
    failures,         \* fetch attempts failed so far
    io_faults,        \* writes to data_dir that may still fail (0: a sound disk)
    force_update,     \* check_website_changes' argument
    attempt,          \* fetch_website_content's loop counter
    html_content,     \* locals of check_website_changes
    extracted_content,
    previous_content,
    diff,
    sent,             \* the calls of send_notification in this cycle
    result,           \* the terminal state the cycle ended in
    before,           \* the target's record when the cycle began
    passlog,          \* the cycles of the pass under way, by list position
    last              \* per storage key, the latest cycle that ended

vars == <<sites, store, clock, mode, pc, idx, now, ticks, checks, failures,
          io_faults, force_update, attempt, html_content, extracted_content,
          previous_content, diff, sent, result, before, passlog, last>>

config_vars == <<sites>>

locals == <<html_content, extracted_content, previous_content, diff, sent>>

loop_vars == <<mode, idx, now, ticks>>

bound_vars == <<checks, failures>>

memory == <<passlog, last>>

Urls == {sites[n].url : n \in 1..Len(sites)}

EmptyRecord == [raw |-> None, content |-> None, diff |-> None, last_check |-> None]

NoCycle == [outcome |-> "none", extracted |-> None, sent |-> <<>>]

\* get_site_data_path with the display name entering the digest.
get_site_data_path_named(target) == <<target.name, target.url>>

\* get_site_data_path: the directory named by the digest of the URL alone.
get_site_data_path(target) == target.url

\* load_content: None for a missing file, else the text of the file.
load_content(path, slot) == store[path][slot]

\* save_content with the write lost.
save_content_dropped(content, path, slot) == store

\* save_content / open(..., 'w'): the slot holds the new value afterwards.
save_content(content, path, slot) ==
    [store EXCEPT ![path][slot] = content]

site == sites[idx]

key == get_site_data_path(site)

InCycle == pc \notin {"idle", "loop", "tick"}

\* The state when main has loaded a configuration whose target list is one
\* of `lists`, on a disk on which `faults` writes will fail.
StartWith(lists, faults) ==
    /\ sites \in lists
    /\ store = [u \in Urls |-> EmptyRecord]
    /\ clock \in ClockStarts
    /\ mode = "idle"
    /\ pc = "idle"
    /\ idx = 1
    /\ now = 0
    /\ ticks = 0
    /\ checks = 0
    /\ failures = 0
    /\ io_faults = faults
    /\ force_update = FALSE
    /\ attempt = 0
    /\ html_content = None
    /\ extracted_content = None
    /\ previous_content = None
    /\ diff = None
    /\ sent = <<>>
    /\ result = "none"
    /\ before = EmptyRecord
    /\ passlog = [n \in 1..Len(sites) |-> None]
    /\ last = [u \in Urls |-> NoCycle]

\* The same with the target lists of the model.
Start(faults) == StartWith(SiteLists, faults)

Init == Start(0)

\* ------------------------------------------------------------------------
\* check_website_changes, one action per statement that touches the store,
\* the network or the notifier
\* ------------------------------------------------------------------------
\* The call: lines 513-525.
BeginCycle(n, force) ==
    /\ checks < MaxChecks
    /\ checks' = checks + 1
    /\ idx' = n
    /\ pc' = "fetch"
    /\ force_update' = force
    /\ attempt' = 0
    /\ before' = store[get_site_data_path(sites[n])]
    /\ html_content' = None
    /\ extracted_content' = None
    /\ previous_content' = None
    /\ diff' = None
    /\ sent' = <<>>
    /\ result' = "none"

\* FetchSucceeds with an empty body taken for content like any other.
FetchSucceedsKeepsEmpty ==
    /\ pc = "fetch"
    /\ \E payload \in Payloads : html_content' = Some(payload)
    /\ pc' = "save_raw"
    /\ UNCHANGED <<config_vars, io_faults, store, clock, loop_vars, bound_vars, force_update,
                   attempt, extracted_content, previous_content, diff, sent, result,
                   before, memory>>

\* fetch_website_content, one attempt of the loop of lines 223-238 that
\* answers, and line 530: an empty body is falsy and ends the cycle.
FetchSucceeds ==
    /\ pc = "fetch"
    /\ \E payload \in Payloads :
        /\ html_content' = Some(payload)
        /\ IF Falsy(Some(payload))
           THEN pc' = "return" /\ result' = "skipped"
           ELSE pc' = "save_raw" /\ result' = result
    /\ UNCHANGED <<config_vars, io_faults, store, clock, loop_vars, bound_vars, force_update,
                   attempt, extracted_content, previous_content, diff, sent,
                   before, memory>>

\* FetchFails with an HTTP error status ending the fetch at once, only
\* transport failures being tried again.
FetchFailsHttpFinal ==
    /\ pc = "fetch"
    /\ failures < MaxFailures
    /\ \E kind \in AttemptFailures :
        IF attempt < retry_count - 1 /\ kind # "http_error"
        THEN /\ clock' = clock + retry_delay
             /\ pc' = "fetch"
             /\ result' = result
        ELSE /\ clock' = clock
             /\ pc' = "return"
             /\ result' = "skipped"
    /\ attempt' = attempt + 1
    /\ failures' = failures + 1
    /\ UNCHANGED <<config_vars, io_faults, store, loop_vars, checks, force_update, locals,
                   before, memory>>

\* FetchFails with the last-check timestamp written when the fetch gives up.
FetchFailsStampsCheck ==
    /\ pc = "fetch"
    /\ failures < MaxFailures
    /\ \E kind \in AttemptFailures :
        IF attempt < retry_count - 1
        THEN /\ clock' = clock + retry_delay
             /\ pc' = "fetch"
             /\ result' = result
             /\ store' = store
        ELSE /\ clock' = clock
             /\ pc' = "return"
             /\ result' = "skipped"
             /\ store' = [store EXCEPT ![key]["last_check"] = Some(clock)]
    /\ attempt' = attempt + 1
    /\ failures' = failures + 1
    /\ UNCHANGED <<config_vars, io_faults, loop_vars, checks, force_update, locals,
                   before, memory>>

\* One attempt that raises requests.RequestException: sleep and try again,
\* or after the last attempt return None, which ends the cycle at line 532.
FetchFails ==
    /\ pc = "fetch"
    /\ failures < MaxFailures
    /\ \E kind \in AttemptFailures :
        IF attempt < retry_count - 1
        THEN /\ clock' = clock + retry_delay
             /\ pc' = "fetch"
             /\ result' = result
        ELSE /\ clock' = clock
             /\ pc' = "return"
             /\ result' = "skipped"
    /\ attempt' = attempt + 1
    /\ failures' = failures + 1
    /\ UNCHANGED <<config_vars, io_faults, store, loop_vars, checks, force_update, locals,
                   before, memory>>

\* Whether a write succeeds: any write may fail while the disk has faults
\* left (no space, no permission).
WriteOutcomes == IF io_faults > 0 THEN BOOLEAN ELSE {TRUE}

\* One open(..., 'w') and write of a slot of the target's record: done, or
\* failed with the file as it was.
TrySave(ok, content, slot) ==
    /\ store' = IF ok THEN save_content(content, key, slot) ELSE store
    /\ io_faults' = IF ok THEN io_faults ELSE io_faults - 1

\* SaveRaw with raw.html written for a record that has none yet, and left
\* alone afterwards.
SaveRawOnce ==
    /\ pc = "save_raw"
    /\ store' = IF store[key].raw = None
                THEN save_content(html_content, key, "raw")
                ELSE store
    /\ pc' = "compare"
    /\ UNCHANGED <<config_vars, io_faults, clock, loop_vars, bound_vars, force_update,
                   attempt, locals, result, before, memory>>

\* Line 535; save_content logs a failed write and returns False (lines
\* 292-294), which no caller looks at.
SaveRaw ==
    /\ pc = "save_raw"
    /\ \E ok \in WriteOutcomes : TrySave(ok, html_content, "raw")
    /\ pc' = "compare"
    /\ UNCHANGED <<config_vars, clock, loop_vars, bound_vars, force_update, attempt,
                   locals, result, before, memory>>

\* Lines 538-563: extract, load the baseline, and take the baseline branch
\* or compute the diff.
Compare ==
    /\ pc = "compare"
    /\ extracted_content' =
          Some(extract_content(html_content[1], site.selector, site.ignore_patterns))
    /\ previous_content' = load_content(key, "content")
    /\ IF Falsy(previous_content') \/ force_update
       THEN pc' = "save_baseline" /\ diff' = diff
       ELSE pc' = "write_check" /\ diff' = compute_diff(previous_content', extracted_content')
    /\ UNCHANGED <<config_vars, io_faults, store, clock, loop_vars, bound_vars, force_update,
                   attempt, html_content, sent, result, before, memory>>

\* SaveBaseline with the last diff removed along with the old baseline.
SaveBaselineClearsDiff ==
    /\ pc = "save_baseline"
    /\ store' = [save_content(extracted_content, key, "content") EXCEPT ![key].diff = None]
    /\ pc' = "write_check_baseline"
    /\ UNCHANGED <<config_vars, io_faults, clock, loop_vars, bound_vars, force_update,
                   attempt, locals, result, before, memory>>

\* Line 550.
SaveBaseline ==
    /\ pc = "save_baseline"
    /\ \E ok \in WriteOutcomes : TrySave(ok, extracted_content, "content")
    /\ pc' = "write_check_baseline"
    /\ UNCHANGED <<config_vars, clock, loop_vars, bound_vars, force_update, attempt,
                   locals, result, before, memory>>

\* Lines 553-560.  The open and json.dump of last_check.json are in no try
\* block: a failed write raises through check_website_changes and its
\* callers, none of which catches it, and the process ends.
WriteCheckBaseline ==
    /\ pc = "write_check_baseline"
    /\ \E ok \in WriteOutcomes :
        /\ TrySave(ok, Some(clock), "last_check")
        /\ IF ok THEN pc' = "return" /\ result' = "established"
                 ELSE pc' = "crashed" /\ result' = result
    /\ UNCHANGED <<config_vars, clock, loop_vars, bound_vars, force_update, attempt,
                   locals, before, memory>>

\* WriteCheck with the timestamp written only when there is a change.
WriteCheckOnChange ==
    /\ pc = "write_check"
    /\ IF ~Falsy(diff)
       THEN /\ store' = [store EXCEPT ![key]["last_check"] = Some(clock)]
            /\ pc' = "save_diff" /\ result' = result
       ELSE /\ store' = store
            /\ pc' = "return" /\ result' = "unchanged"
    /\ UNCHANGED <<config_vars, io_faults, clock, loop_vars, bound_vars, force_update, attempt,
                   locals, before, memory>>

\* WriteCheck with the change path taken whatever the diff is.
WriteCheckAlwaysReports ==
    /\ pc = "write_check"
    /\ \E ok \in WriteOutcomes :
        /\ TrySave(ok, Some(clock), "last_check")
        /\ IF ~ok THEN pc' = "crashed" /\ result' = result
           ELSE pc' = "save_diff" /\ result' = result
    /\ UNCHANGED <<config_vars, clock, loop_vars, bound_vars, force_update, attempt,
                   locals, before, memory>>

\* Lines 566-574 and 591-593; a failed write of last_check.json raises as
\* at lines 553-558.
WriteCheck ==
    /\ pc = "write_check"
    /\ \E ok \in WriteOutcomes :
        /\ TrySave(ok, Some(clock), "last_check")
        /\ IF ~ok THEN pc' = "crashed" /\ result' = result
           ELSE IF ~Falsy(diff) THEN pc' = "save_diff" /\ result' = result
           ELSE pc' = "return" /\ result' = "unchanged"
    /\ UNCHANGED <<config_vars, clock, loop_vars, bound_vars, force_update, attempt,
                   locals, before, memory>>

\* Lines 578-582: diff.txt, and diff.html rendered from the same two texts.
SaveDiff ==
    /\ pc = "save_diff"
    /\ \E ok \in WriteOutcomes : TrySave(ok, diff, "diff")
    /\ pc' = "save_content"
    /\ UNCHANGED <<config_vars, clock, loop_vars, bound_vars, force_update, attempt,
                   locals, result, before, memory>>

\* Line 585.
SaveContent ==
    /\ pc = "save_content"
    /\ \E ok \in WriteOutcomes : TrySave(ok, extracted_content, "content")
    /\ pc' = "notify"
    /\ UNCHANGED <<config_vars, clock, loop_vars, bound_vars, force_update, attempt,
                   locals, result, before, memory>>

\* send_notification with the new snapshot kept only when delivery worked.
send_notification_rollback ==
    /\ pc = "notify"
    /\ \E delivered \in BOOLEAN :
        /\ sent' = Append(sent, [diff |-> diff, delivered |-> delivered])
        /\ store' = IF delivered THEN store
                    ELSE [store EXCEPT ![key]["content"] = previous_content]
    /\ pc' = "return"
    /\ result' = "changed"
    /\ UNCHANGED <<config_vars, io_faults, clock, loop_vars, bound_vars, force_update,
                   attempt, html_content, extracted_content, previous_content, diff,
                   before, memory>>

\* Lines 588-590: send_notification catches every delivery error and
\* answers whether any channel delivered; the answer is not looked at.
send_notification ==
    /\ pc = "notify"
    /\ \E delivered \in BOOLEAN :
        sent' = Append(sent, [diff |-> diff, delivered |-> delivered])
    /\ pc' = "return"
    /\ result' = "changed"
    /\ UNCHANGED <<config_vars, io_faults, store, clock, loop_vars, bound_vars, force_update,
                   attempt, html_content, extracted_content, previous_content, diff,
                   before, memory>>

\* What the pass remembers of a cycle that ended.
CycleRecord(outcome) ==
    [outcome |-> outcome, returned |-> (outcome = "changed"),
     forced |-> force_update, failed |-> attempt,
     extracted |-> extracted_content, previous |-> previous_content,
     diff |-> diff, sent |-> sent, before |-> before, after |-> store[key],
     at |-> clock]

\* What is remembered of the latest cycle of a storage key.  A skipped cycle
\* leaves it: it fetched nothing.
LastCycle(outcome) ==
    IF outcome = "skipped" THEN last
    ELSE [last EXCEPT ![key] =
            [outcome |-> outcome, extracted |-> extracted_content, sent |-> sent]]

\* The locals of check_website_changes are gone when it returns.
ResetLocals ==
    /\ force_update' = FALSE
    /\ attempt' = 0
    /\ html_content' = None
    /\ extracted_content' = None
    /\ previous_content' = None
    /\ diff' = None
    /\ sent' = <<>>
    /\ result' = "none"
    /\ before' = EmptyRecord

\* Return with a failed fetch ending the whole pass.
ReturnAbortsPass ==
    /\ pc = "return"
    /\ last' = LastCycle(result)
    /\ IF mode = "reset"
       THEN /\ mode' = "idle" /\ pc' = "idle" /\ idx' = 1
            /\ passlog' = [n \in 1..Len(sites) |-> None]
       ELSE /\ mode' = mode /\ pc' = "loop"
            /\ idx' = IF result = "skipped" THEN Len(sites) + 1 ELSE idx + 1
            /\ passlog' = [passlog EXCEPT ![idx] = Some(CycleRecord(result))]
    /\ ResetLocals
    /\ UNCHANGED <<config_vars, io_faults, store, clock, now, ticks, bound_vars>>

\* Return with the for loop starting over at the head of the list.
ReturnRestartsList ==
    /\ pc = "return"
    /\ last' = LastCycle(result)
    /\ IF mode = "reset"
       THEN /\ mode' = "idle" /\ pc' = "idle" /\ idx' = 1
            /\ passlog' = [n \in 1..Len(sites) |-> None]
       ELSE /\ mode' = mode /\ pc' = "loop" /\ idx' = 1
            /\ passlog' = [passlog EXCEPT ![idx] = Some(CycleRecord(result))]
    /\ ResetLocals
    /\ UNCHANGED <<config_vars, io_faults, store, clock, now, ticks, bound_vars>>

\* Return with a skipped cycle writing the last-check timestamp.
ReturnStampsSkipped ==
    /\ pc = "return"
    /\ last' = LastCycle(result)
    /\ store' = IF result = "skipped"
                THEN save_content(Some(clock), key, "last_check")
                ELSE store
    /\ IF mode = "reset"
       THEN /\ mode' = "idle" /\ pc' = "idle" /\ idx' = 1
            /\ passlog' = [n \in 1..Len(sites) |-> None]
       ELSE /\ mode' = mode /\ pc' = "loop" /\ idx' = idx + 1
            /\ passlog' = [passlog EXCEPT ![idx] = Some(CycleRecord(result))]
    /\ ResetLocals
    /\ UNCHANGED <<config_vars, io_faults, clock, now, ticks, bound_vars>>

\* Return with the for loop staying on the target just checked.
ReturnStaysOnTarget ==
    /\ pc = "return"
    /\ last' = LastCycle(result)
    /\ IF mode = "reset"
       THEN /\ mode' = "idle" /\ pc' = "idle" /\ idx' = 1
            /\ passlog' = [n \in 1..Len(sites) |-> None]
       ELSE /\ mode' = mode /\ pc' = "loop" /\ idx' = idx
            /\ passlog' = [passlog EXCEPT ![idx] = Some(CycleRecord(result))]
    /\ ResetLocals
    /\ UNCHANGED <<config_vars, io_faults, store, clock, now, ticks, bound_vars>>

\* The return to the caller: the for loops go on with the next target
\* (lines 656, 697), a reset returns to main (line 647).
Return ==
    /\ pc = "return"
    /\ last' = LastCycle(result)
    /\ IF mode = "reset"
       THEN /\ mode' = "idle" /\ pc' = "idle" /\ idx' = 1
            /\ passlog' = [n \in 1..Len(sites) |-> None]
       ELSE /\ mode' = mode /\ pc' = "loop" /\ idx' = idx + 1
            /\ passlog' = [passlog EXCEPT ![idx] = Some(CycleRecord(result))]
    /\ ResetLocals
    /\ UNCHANGED <<config_vars, io_faults, store, clock, now, ticks, bound_vars>>

\* ------------------------------------------------------------------------
\* check_sites, run_daemon and main
\* ------------------------------------------------------------------------
\* str.lower() on the names and URLs of the model.
Lower(str) ==
    IF str \in {"A", "a"} THEN "a"
    ELSE IF str \in {"B", "b"} THEN "b"
    ELSE IF str \in {"HTTP://A", "http://a"} THEN "http://a"
    ELSE IF str \in {"HTTP://B", "http://b"} THEN "http://b"
    ELSE str

SiteMatches(n, name_or_url) ==
    \/ Lower(sites[n].name) = Lower(name_or_url)
    \/ Lower(sites[n].url) = Lower(name_or_url)

\* find_site_by_name_or_url with the loop running to the end of the list:
\* the position of the last match.
find_site_last_match(name_or_url) ==
    IF \E n \in 1..Len(sites) : SiteMatches(n, name_or_url)
    THEN CHOOSE n \in 1..Len(sites) :
            /\ SiteMatches(n, name_or_url)
            /\ \A k \in (n + 1)..Len(sites) : ~SiteMatches(k, name_or_url)
    ELSE 0

\* find_site_by_name_or_url: the position of the first match, 0 for None.
find_site_by_name_or_url(name_or_url) ==
    IF \E n \in 1..Len(sites) : SiteMatches(n, name_or_url)
    THEN CHOOSE n \in 1..Len(sites) :
            /\ SiteMatches(n, name_or_url)
            /\ \A k \in 1..(n - 1) : ~SiteMatches(k, name_or_url)
    ELSE 0

\* main with --check-now: check_sites(config), lines 631-649.
RunCheckNow ==
    /\ mode = "idle"
    /\ checks < MaxChecks
    /\ mode' = "check_sites"
    /\ pc' = "loop"
    /\ idx' = 1
    /\ UNCHANGED <<config_vars, io_faults, store, clock, now, ticks, bound_vars, force_update,
                   attempt, locals, result, before, memory>>

\* main with --reset: check_sites(config, reset_site), lines 640-647.
RunReset ==
    /\ mode = "idle"
    /\ \E reset_site \in ResetNames :
        LET found == find_site_by_name_or_url(reset_site)
        IN  IF found # 0
            THEN /\ mode' = "reset"
                 /\ BeginCycle(found, TRUE)
                 /\ UNCHANGED <<config_vars, io_faults, store, clock, now, ticks, failures,
                                memory>>
            ELSE UNCHANGED vars

\* CheckSitesSkip with the inactive target checked like any other.
CheckSitesChecksInactive ==
    /\ mode = "check_sites" /\ pc = "loop"
    /\ idx <= Len(sites)
    /\ ~site.active
    /\ BeginCycle(idx, FALSE)
    /\ UNCHANGED <<config_vars, io_faults, store, clock, mode, now, ticks, failures, memory>>

\* Lines 651-654 of check_sites.
CheckSitesSkip ==
    /\ mode = "check_sites" /\ pc = "loop"
    /\ idx <= Len(sites)
    /\ ~site.active
    /\ idx' = idx + 1
    /\ UNCHANGED <<config_vars, io_faults, store, clock, mode, pc, now, ticks, bound_vars,
                   force_update, attempt, locals, result, before, memory>>

\* Line 656 of check_sites.
CheckSitesCheck ==
    /\ mode = "check_sites" /\ pc = "loop"
    /\ idx <= Len(sites)
    /\ site.active
    /\ BeginCycle(idx, FALSE)
    /\ UNCHANGED <<config_vars, io_faults, store, clock, mode, now, ticks, failures, memory>>

\* Line 659 of check_sites.
CheckSitesReturn ==
    /\ mode = "check_sites" /\ pc = "loop"
    /\ idx > Len(sites)
    /\ mode' = "idle" /\ pc' = "idle" /\ idx' = 1
    /\ passlog' = [n \in 1..Len(sites) |-> None]
    /\ UNCHANGED <<config_vars, io_faults, store, clock, now, ticks, bound_vars, force_update,
                   attempt, locals, result, before, last>>

\* main with --daemon: run_daemon, lines 661-671.  With an empty target
\* list the function logs an error and returns at once (lines 666-668),
\* and main returns with it.
RunDaemon ==
    /\ mode = "idle"
    /\ checks < MaxChecks
    /\ IF sites = <<>>
       THEN mode' = "daemon_returned" /\ pc' = pc
       ELSE mode' = "daemon" /\ pc' = "tick"
    /\ UNCHANGED <<config_vars, io_faults, store, clock, idx, now, ticks, bound_vars,
                   force_update, attempt, locals, result, before, memory>>

\* Line 673.
DaemonTick ==
    /\ mode = "daemon" /\ pc = "tick"
    /\ now' = clock
    /\ idx' = 1
    /\ pc' = "loop"
    /\ passlog' = [n \in 1..Len(sites) |-> None]
    /\ UNCHANGED <<config_vars, io_faults, store, clock, mode, ticks, bound_vars, force_update,
                   attempt, locals, result, before, last>>

\* Lines 676-677.
DaemonSkip ==
    /\ mode = "daemon" /\ pc = "loop"
    /\ idx <= Len(sites)
    /\ ~site.active
    /\ idx' = idx + 1
    /\ UNCHANGED <<config_vars, io_faults, store, clock, mode, pc, now, ticks, bound_vars,
                   force_update, attempt, locals, result, before, memory>>

\* What last_check.json may hold instead of a record the program wrote:
\* bytes that are no JSON document (or a file that cannot be opened), a
\* JSON object with no "timestamp" key, and a JSON object whose
\* "timestamp" is not a number.  Such a slot is the pair <<"garbled", kind>>.
Malformed == {"unreadable", "no_timestamp", "bad_timestamp"}

IsGarbled(slot) == Len(slot) = 2

\* Lines 683-690: 0 when there is no last_check.json, when json.load
\* raises (the bare except) and when the key is missing (.get's default);
\* otherwise whatever the key holds.
last_check_time(n) ==
    LET slot == store[get_site_data_path(sites[n])].last_check
    IN  IF slot = None THEN 0
        ELSE IF IsGarbled(slot)
             THEN (IF slot[2] = "bad_timestamp" THEN slot[2] ELSE 0)
             ELSE slot[1]

\* Line 696 can be evaluated: `now - last_check_time` raises TypeError
\* when the value read is not a number.
TimestampIsNumber(n) ==
    LET slot == store[get_site_data_path(sites[n])].last_check
    IN  ~(IsGarbled(slot) /\ slot[2] = "bad_timestamp")

\* Line 693: site.get('check_interval') or config['check_interval']
effective_interval(n) ==
    IF sites[n].check_interval = None \/ sites[n].check_interval[1] = 0
    THEN check_interval
    ELSE sites[n].check_interval[1]

\* IsDue with a strict comparison.
IsDueStrict(n) == now - last_check_time(n) > effective_interval(n)

\* Line 696.
IsDue(n) == now - last_check_time(n) >= effective_interval(n)

\* Lines 696-697, the target is due.  A TypeError raised by the test is
\* caught nowhere (line 702 catches KeyboardInterrupt only): the process
\* ends.
DaemonCheck ==
    /\ mode = "daemon" /\ pc = "loop"
    /\ idx <= Len(sites)
    /\ site.active
    /\ IF TimestampIsNumber(idx)
       THEN /\ IsDue(idx)
            /\ BeginCycle(idx, FALSE)
            /\ UNCHANGED <<config_vars, io_faults, store, clock, mode, now, ticks,
                           failures, memory>>
       ELSE /\ pc' = "crashed"
            /\ UNCHANGED <<config_vars, io_faults, store, clock, loop_vars, bound_vars,
                           force_update, attempt, locals, result, before, memory>>

\* Line 696, the target is not due.
DaemonNotDue ==
    /\ mode = "daemon" /\ pc = "loop"
    /\ idx <= Len(sites)
    /\ site.active
    /\ TimestampIsNumber(idx)
    /\ ~IsDue(idx)
    /\ idx' = idx + 1
    /\ UNCHANGED <<config_vars, io_faults, store, clock, mode, pc, now, ticks, bound_vars,
                   force_update, attempt, locals, result, before, memory>>

\* Line 700.
DaemonSleep ==
    /\ mode = "daemon" /\ pc = "loop"
    /\ idx > Len(sites)
    /\ ticks < MaxTicks
    /\ clock' = clock + SleepSecs
    /\ ticks' = ticks + 1
    /\ pc' = "tick"
    /\ UNCHANGED <<config_vars, io_faults, store, mode, idx, now, bound_vars, force_update,
                   attempt, locals, result, before, memory>>

\* Lines 702-703: Ctrl-C wherever the daemon is; a cycle under way ends there.
KeyboardInterrupt ==
    /\ mode = "daemon"
    /\ pc # "crashed"
    /\ last' = IF InCycle THEN LastCycle("interrupted") ELSE last
    /\ passlog' = [n \in 1..Len(sites) |-> None]
    /\ mode' = "idle" /\ pc' = "idle" /\ idx' = 1 /\ now' = 0
    /\ ResetLocals
    /\ UNCHANGED <<config_vars, io_faults, store, clock, ticks, bound_vars>>

CycleStep ==
    \/ FetchSucceeds \/ FetchFails \/ SaveRaw \/ Compare \/ SaveBaseline
    \/ WriteCheckBaseline \/ WriteCheck \/ SaveDiff \/ SaveContent
    \/ send_notification \/ Return

PassStep ==
    \/ RunCheckNow \/ RunReset
    \/ CheckSitesSkip \/ CheckSitesCheck \/ CheckSitesReturn

DaemonStep ==
    \/ RunDaemon
    \/ DaemonTick \/ DaemonSkip \/ DaemonCheck \/ DaemonNotDue \/ DaemonSleep
    \/ KeyboardInterrupt

\* The program: the one-shot commands and the daemon, run one after another
\* over the same data directory.
Next == PassStep \/ DaemonStep \/ CycleStep

Spec == Init /\ [][Next]_vars

\* The one-shot commands only (--check-now, --reset), any number of times.
NextPass == PassStep \/ CycleStep

SpecPass == Init /\ [][NextPass]_vars

\* The daemon only, started, stopped and started again.
NextDaemon == DaemonStep \/ CycleStep

SpecDaemon == Init /\ [][NextDaemon]_vars

\* The one-shot commands on a disk on which up to MaxIoFaults writes fail.
InitFaulty == \E faults \in 1..MaxIoFaults : Start(faults)

SpecFaulty == InitFaulty /\ [][NextPass]_vars

\* The one-shot commands with every fetch attempt answering or failing in
\* the end: requests.get is called with a timeout.
SpecFetch == SpecPass /\ WF_vars(FetchSucceeds \/ FetchFails)

\* The daemon on any target list, the empty one included, and on a disk on
\* which up to MaxIoFaults writes may fail.
AnySiteLists == SiteLists \cup {<<>>}

InitAny == \E faults \in 0..MaxIoFaults : StartWith(AnySiteLists, faults)

SpecDaemonAny == InitAny /\ [][NextDaemon]_vars

\* The daemon on a data directory in which, while the monitor is not
\* running, a last_check.json the program wrote may be damaged or edited.
CorruptLastCheck ==
    /\ mode = "idle"
    /\ \E u \in Urls, kind \in Malformed :
        /\ store[u].last_check # None
        /\ ~IsGarbled(store[u].last_check)
        /\ store' = [store EXCEPT ![u].last_check = <<"garbled", kind>>]
    /\ UNCHANGED <<config_vars, io_faults, clock, loop_vars, pc, bound_vars, force_update,
                   attempt, locals, result, before, memory>>

NextCorrupt == NextDaemon \/ CorruptLastCheck

SpecCorrupt == Init /\ [][NextCorrupt]_vars

\* The one-shot commands on the target lists of the model and on one where
\* a name given to --reset matches two entries, the first of them inactive.
ResetSiteLists ==
    SiteLists \cup
    {<<Site("A", "http://a", Some(60), FALSE), Site("a", "http://c", Some(200), TRUE)>>}

InitReset == StartWith(ResetSiteLists, 0)

SpecReset == InitReset /\ [][NextPass]_vars

\* The one-shot commands on a target list with the same URL entered twice,
\* once with a noise filter: add_site_to_config appends whatever URL is
\* typed in, without looking for an entry that already has it.
SharedUrlSiteLists ==
    {<<Site("A", "http://a", Some(60), TRUE),
       [Site("A2", "http://a", Some(60), TRUE) EXCEPT !.ignore_patterns = <<"World">>]>>,
     <<Site("A", "http://a", Some(60), FALSE),
       [Site("A2", "http://a", Some(60), TRUE) EXCEPT !.ignore_patterns = <<"World">>]>>}

InitShared == StartWith(SharedUrlSiteLists, 0)

SpecShared == InitShared /\ [][NextPass]_vars

\* ------------------------------------------------------------------------
\* compute_diff on its own: every pair of texts up to MaxTextLen tokens
\* ------------------------------------------------------------------------
MaxTextLen == 3

TextTokens == {"a", "b", " ", "\n"}

Texts == UNION {[1..n -> TextTokens] : n \in 0..MaxTextLen}

DiffInputs == {None} \cup {Some(t) : t \in Texts}

InitDiff ==
    /\ sites = <<>>
    /\ store = <<>>
    /\ clock = 0
    /\ mode = "idle"
    /\ pc = "diffing"
    /\ idx = 1
    /\ now = 0
    /\ ticks = 0
    /\ checks = 0
    /\ failures = 0
    /\ io_faults = 0
    /\ force_update = FALSE
    /\ attempt = 0
    /\ html_content = None
    /\ extracted_content \in DiffInputs
    /\ previous_content \in DiffInputs
    /\ diff = None
    /\ sent = <<>>
    /\ result = "none"
    /\ before = EmptyRecord
    /\ passlog = <<>>
    /\ last = <<>>

\* Line 563, for any two arguments.
ComputeDiff ==
    /\ pc = "diffing"
    /\ diff' = compute_diff(previous_content, extracted_content)
    /\ pc' = "diffed"
    /\ UNCHANGED <<config_vars, io_faults, store, clock, loop_vars, bound_vars, force_update,
                   attempt, html_content, extracted_content, previous_content,
                   sent, result, before, memory>>

SpecDiff == InitDiff /\ [][ComputeDiff]_vars

\* ------------------------------------------------------------------------
\* get_site_data_path on its own: two list entries in every combination of
\* name, URL, selector, interval and active flag, looked up one after the
\* other (the second may be the first after an edit of the configuration)
\* ------------------------------------------------------------------------
KeyTargets ==
    {[name |-> n, url |-> u, selector |-> sel, ignore_patterns |-> <<>>,
      check_interval |-> i, active |-> a] :
        n \in {"A", "A2"}, u \in {"http://a", "http://b"},
        sel \in {"#content", "p"}, i \in {None, Some(60)}, a \in BOOLEAN}

InitKey ==
    /\ sites \in KeyTargets \X KeyTargets
    /\ store = <<>>
    /\ clock = 0
    /\ mode = "idle"
    /\ pc = "keying"
    /\ idx = 1
    /\ now = 0
    /\ ticks = 0
    /\ checks = 0
    /\ failures = 0
    /\ io_faults = 0
    /\ force_update = FALSE
    /\ attempt = 0
    /\ html_content = None
    /\ extracted_content = None
    /\ previous_content = None
    /\ diff = None
    /\ sent = <<>>
    /\ result = "none"
    /\ before = EmptyRecord
    /\ passlog = <<>>
    /\ last = <<>>

\* Lines 207-215: the directory of the target is made when it is not there
\* (mkdir(exist_ok=True)) and returned.
GetSiteDataPath ==
    /\ pc = "keying"
    /\ store' = IF key \in DOMAIN store THEN store
                ELSE store @@ (key :> EmptyRecord)
    /\ idx' = idx + 1
    /\ pc' = IF idx = Len(sites) THEN "keyed" ELSE "keying"
    /\ UNCHANGED <<config_vars, io_faults, clock, mode, now, ticks, bound_vars, force_update,
                   attempt, locals, result, before, memory>>

SpecKey == InitKey /\ [][GetSiteDataPath]_vars

\* ------------------------------------------------------------------------
\* Line 278 on its own: the normalisation applied to any text, and applied
\* again to its own result
\* ------------------------------------------------------------------------
MaxNormLen == 5

NormTexts == UNION {[1..n -> TextTokens] : n \in 0..MaxNormLen}

\* The variables a function under study does not use, `first` being where
\* it starts.
HarnessStart(first) ==
    /\ store = <<>>
    /\ clock = 0
    /\ mode = "idle"
    /\ pc = first
    /\ idx = 1
    /\ now = 0
    /\ ticks = 0
    /\ checks = 0
    /\ failures = 0
    /\ io_faults = 0
    /\ force_update = FALSE
    /\ attempt = 0
    /\ diff = None
    /\ sent = <<>>
    /\ result = "none"
    /\ before = EmptyRecord
    /\ passlog = <<>>
    /\ last = <<>>

InitNorm ==
    /\ HarnessStart("normalizing")
    /\ sites = <<>>
    /\ html_content \in {Some(t) : t \in NormTexts}
    /\ extracted_content = None
    /\ previous_content = None

\* Line 278 on the text.
Normalize ==
    /\ pc = "normalizing"
    /\ extracted_content' = Some(NormalizeSpace(html_content[1]))
    /\ pc' = "normalized"
    /\ UNCHANGED <<config_vars, io_faults, store, clock, loop_vars, bound_vars, force_update,
                   attempt, html_content, previous_content, diff, sent, result,
                   before, memory>>

\* Line 278 on its own result.
Renormalize ==
    /\ pc = "normalized"
    /\ previous_content' = Some(NormalizeSpace(extracted_content[1]))
    /\ pc' = "renormalized"
    /\ UNCHANGED <<config_vars, io_faults, store, clock, loop_vars, bound_vars, force_update,
                   attempt, html_content, extracted_content, diff, sent, result,
                   before, memory>>

SpecNorm == InitNorm /\ [][Normalize \/ Renormalize]_vars

\* ------------------------------------------------------------------------
\* extract_content on its own: any document of the model, any selector and
\* any list of filter patterns
\* ------------------------------------------------------------------------
MaxPatterns == 3

\* "[" is no CSS selector and "(" is no regular expression.
ExtractSelectors == ValidSelectors \cup {"", "["}

ExtractPatterns == ValidPatterns \cup {"("}

PatternLists == UNION {[1..n -> ExtractPatterns] : n \in 0..MaxPatterns}

ExtractDocs ==
    {<<"<div id=content>", "Hello", " ", "World", "</div>">>,
     <<"<div id=content>", "Hello", "42", "World", " ", "Hi", "</div>">>,
     <<"<p>", "Hello", "</p>", "\n", "<div id=content>", "42", " ", "World", "</div>">>,
     <<"Hello", " ", "<script>", "42", "</script>", "<!--c-->", "World", " ">>,
     <<"<p>", " ", "</p>", "<p>", "Hi">>,
     <<>>}

InitExtract ==
    /\ HarnessStart("extracting")
    /\ \E selector \in ExtractSelectors, ignore_patterns \in PatternLists :
        sites = <<[Site("A", "http://a", None, TRUE) EXCEPT
                     !.selector = selector, !.ignore_patterns = ignore_patterns]>>
    /\ html_content \in {Some(html) : html \in ExtractDocs}
    /\ extracted_content = None
    /\ previous_content = None

\* Lines 538-542: extract_content on the payload with the target's
\* selector and filter patterns.
ExtractContent ==
    /\ pc = "extracting"
    /\ extracted_content' =
          Some(extract_content(html_content[1], site.selector, site.ignore_patterns))
    /\ pc' = "extracted"
    /\ UNCHANGED <<config_vars, io_faults, store, clock, loop_vars, bound_vars, force_update,
                   attempt, html_content, previous_content, diff, sent, result,
                   before, memory>>

SpecExtract == InitExtract /\ [][ExtractContent]_vars

\* ------------------------------------------------------------------------
\* Properties
\* ------------------------------------------------------------------------
Hello == <<"Hello">>

HelloWorld == <<"Hello", " ", "World">>

C2_EndToEnd ==
    (pc = "return" /\ result # "skipped" /\ ~force_update) =>
        /\ before = EmptyRecord =>
            /\ result = "established"
            /\ store[key].content = extracted_content
            /\ sent = <<>>
        /\ ( /\ last[key].outcome = "established"
             /\ ~Falsy(last[key].extracted)
             /\ ~Falsy(extracted_content)
             /\ extracted_content # last[key].extracted ) =>
            /\ result = "changed"
            /\ ~Falsy(diff)
            /\ Len(sent) = 1
            /\ sent[1].diff = diff
            /\ store[key].diff = diff
            /\ store[key].content = extracted_content
        /\ ( /\ last[key].outcome = "changed"
             /\ extracted_content = last[key].extracted ) =>
            /\ result = "unchanged"
            /\ diff = None
            /\ sent = <<>>
            /\ store[key].content = extracted_content
            /\ store[key].last_check = Some(clock)

C2_Witness ==
    /\ pc = "return"
    /\ result = "unchanged"
    /\ last[key].outcome = "changed"
    /\ Len(last[key].sent) = 1
    /\ extracted_content = Some(HelloWorld)
    /\ store[key].last_check = Some(clock)
    /\ before.last_check # Some(clock)

PassEnd == mode = "check_sites" /\ pc = "loop" /\ idx > Len(sites)

CycleWritesContent ==
    \/ pc \in {"save_baseline", "write_check_baseline", "save_diff",
               "save_content", "notify"}
    \/ pc = "write_check" /\ ~Falsy(diff)
    \/ pc = "return" /\ result \in {"established", "changed"}

\* C4: whenever a reader loads the record of the target being checked, the
\* snapshot and the timestamp it sees are both those from before the cycle
\* or both those the cycle leaves, never one of each.
C4_AtomicStore ==
    InCycle =>
        \/ /\ store[key].content = before.content
           /\ store[key].last_check = before.last_check
        \/ /\ store[key].content =
                (IF CycleWritesContent THEN extracted_content ELSE before.content)
           /\ store[key].last_check = Some(clock)

\* C5: compute_diff of a text with itself is empty.
C5_DiffSelfEmpty ==
    (pc = "diffed" /\ previous_content = extracted_content) => diff = None

C5_Witness ==
    /\ pc = "diffed"
    /\ previous_content = Some(<<"a", "\n", "b">>)
    /\ extracted_content = previous_content
    /\ diff = None

IsNormalized(x) == x # None /\ NormalizeSpace(x[1]) = x[1]

\* C6: for normalized texts a and b, compute_diff(a, b) is non-empty exactly
\* when a and b differ.
C6_DiffIffDifferent ==
    (pc = "diffed" /\ IsNormalized(previous_content) /\ IsNormalized(extracted_content)) =>
        (diff # None <=> previous_content # extracted_content)

\* C7: between cycles, a target's stored normalized content is the
\* extraction of its most recent successful fetch.
C7_BaselineFresh ==
    \A u \in Urls :
        ( /\ ~(InCycle /\ key = u)
          /\ store[u].content # None
          /\ last[u].outcome \in {"established", "unchanged", "changed"} ) =>
            store[u].content = last[u].extracted

\* C8: a cycle that ends changed with the notifier failing has the new
\* snapshot stored, and the next cycle of that target that fetches the same
\* content ends unchanged without a notifier call.
C8_NotifyFailurePersists ==
    pc = "return" =>
        /\ (result = "changed" /\ Len(sent) = 1 /\ ~sent[1].delivered) =>
            store[key].content = extracted_content
        /\ ( /\ ~force_update
             /\ result # "skipped"
             /\ last[key].outcome = "changed"
             /\ Len(last[key].sent) = 1
             /\ ~last[key].sent[1].delivered
             /\ extracted_content = last[key].extracted ) =>
            /\ result = "unchanged"
            /\ sent = <<>>

C8_Witness ==
    /\ pc = "return"
    /\ result = "unchanged"
    /\ last[key].outcome = "changed"
    /\ Len(last[key].sent) = 1
    /\ ~last[key].sent[1].delivered
    /\ extracted_content = last[key].extracted

\* C9: in a daemon tick, an active target with a last-check timestamp is
\* checked exactly when now, taken at the start of the tick, minus that
\* timestamp is at least its effective interval.
C9_DueRule ==
    (mode = "daemon" /\ pc # "tick") =>
        \A n \in 1..Len(sites) :
            sites[n].active =>
                /\ (InCycle /\ idx = n /\ before.last_check # None) =>
                    now - before.last_check[1] >= effective_interval(n)
                /\ (passlog[n] # None /\ passlog[n][1].before.last_check # None) =>
                    now - passlog[n][1].before.last_check[1] >= effective_interval(n)
                /\ ( /\ n < idx
                     /\ passlog[n] = None
                     /\ store[sites[n].url].last_check # None ) =>
                    now - store[sites[n].url].last_check[1] < effective_interval(n)

C9_Witness ==
    /\ mode = "daemon"
    /\ pc = "loop"
    /\ idx = 3
    /\ sites[1].active
    /\ passlog[1] # None
    /\ passlog[1][1].before.last_check # None
    /\ now - passlog[1][1].before.last_check[1] = 60
    /\ sites[2].active
    /\ passlog[2] = None
    /\ store[sites[2].url].last_check # None

\* C10: in a daemon tick, an active target that has no last-check record is
\* checked when the loop comes to it, whatever now and its interval are.
C10_NeverCheckedIsDue ==
    (mode = "daemon" /\ pc = "loop") =>
        \A n \in 1..Len(sites) :
            (n < idx /\ sites[n].active /\ passlog[n] = None) =>
                store[sites[n].url].last_check # None

\* The interval the configuration gives target n: its override when it has
\* one, the global default when it has none.
ConfiguredInterval(n) ==
    IF sites[n].check_interval # None THEN sites[n].check_interval[1]
    ELSE check_interval

\* C11: in a daemon tick an active target with a last-check timestamp is
\* checked exactly when now minus that timestamp is at least its own
\* override, whatever value the override has, and at least the global
\* default only when it has no override.
C11_EffectiveInterval ==
    (mode = "daemon" /\ pc # "tick") =>
        \A n \in 1..Len(sites) :
            sites[n].active =>
                /\ (passlog[n] # None /\ passlog[n][1].before.last_check # None) =>
                    now - passlog[n][1].before.last_check[1] >= ConfiguredInterval(n)
                /\ ( /\ n < idx
                     /\ passlog[n] = None
                     /\ store[sites[n].url].last_check # None ) =>
                    now - store[sites[n].url].last_check[1] < ConfiguredInterval(n)

\* The scheduler is running: a pass of check_sites or the loop of run_daemon.
Scheduling == mode \in {"check_sites", "daemon"}

\* C12: while a pass of check_sites or the loop of run_daemon runs, no step
\* begins or continues a check cycle of an inactive target, and no step
\* changes any slot of an inactive target's record, however old its
\* timestamp is.
C12_InactiveNeverChecked ==
    [][ /\ (Scheduling' /\ InCycle') => sites'[idx'].active
        /\ Scheduling =>
            \A n \in 1..Len(sites) :
                ~sites[n].active =>
                    store'[get_site_data_path(sites[n])] =
                        store[get_site_data_path(sites[n])] ]_vars

C12_Witness ==
    /\ mode = "daemon"
    /\ pc = "loop"
    /\ idx = 2
    /\ ~sites[1].active
    /\ store[sites[1].url].last_check # None
    /\ now - store[sites[1].url].last_check[1] >= effective_interval(1)
    /\ checks < MaxChecks

\* C13: within one pass the cycles follow the order of the target list: a
\* cycle starts only for a target that comes after every target whose
\* cycle the pass has completed, and while a cycle is under way no other
\* starts or completes, so of two targets checked in one pass the earlier
\* in the list completes before the later starts.
C13_ListOrder ==
    [][ (Scheduling /\ Scheduling') =>
           /\ (~InCycle /\ InCycle') =>
                \A n \in 1..Len(sites) : passlog[n] # None => n < idx'
           /\ (InCycle /\ InCycle') => (idx' = idx /\ passlog' = passlog)
           /\ (InCycle /\ ~InCycle') =>
                /\ passlog'[idx] # None
                /\ \A n \in 1..Len(sites) : n # idx => passlog'[n] = passlog[n] ]_vars

C13_Witness ==
    /\ Scheduling
    /\ pc = "loop"
    /\ idx > Len(sites)
    /\ passlog[1] # None
    /\ passlog[2] # None
    /\ passlog[1][1].at < passlog[2][1].at
    /\ passlog[2][1].before.raw = None

\* C14: a fetch is at its attempt number attempt + 1 <= retry_count while
\* it runs; an attempt that answers ends the fetch with the payload and
\* without a wait; an attempt that fails, whatever the kind of failure,
\* counts as one, is followed by a wait of exactly retry_delay and another
\* attempt when fewer than retry_count were made, and ends the fetch without
\* content when it was the last; and every fetch ends.
C14_BoundedRetry ==
    /\ [][ pc = "fetch" =>
             /\ attempt < retry_count
             /\ html_content' # None =>
                  /\ pc' # "fetch"
                  /\ attempt' = attempt
                  /\ clock' = clock
             /\ html_content' = None =>
                  /\ attempt' = attempt + 1
                  /\ IF attempt' < retry_count
                     THEN pc' = "fetch" /\ clock' = clock + retry_delay
                     ELSE pc' = "return" /\ result' = "skipped" /\ clock' = clock ]_vars
    /\ (pc = "fetch") ~> (pc # "fetch")

C14_Witness ==
    /\ pc = "save_raw"
    /\ attempt = retry_count - 1
    /\ checks = 1
    /\ clock \in {c + 2 * retry_delay : c \in ClockStarts}
    /\ html_content # None

\* C15: while a fetch runs the target's record is as it was when the cycle
\* began, and a cycle whose fetch failed on every attempt ends skipped with
\* all four slots of the record as they were and without a notifier call.
C15_FailedFetchWritesNothing ==
    /\ pc = "fetch" => store[key] = before
    /\ (pc = "return" /\ html_content = None /\ attempt = retry_count) =>
        /\ result = "skipped"
        /\ store[key] = before
        /\ sent = <<>>

C15_Witness ==
    /\ pc = "return"
    /\ html_content = None
    /\ attempt = retry_count
    /\ result = "skipped"
    /\ before.content = Some(Hello)
    /\ before.last_check # None
    /\ store[key] = before

\* C16: a cycle that is not forced and whose target has a content record,
\* an empty one included, takes the diff path: it never enters the
\* baseline branch and never ends established.
C16_EmptyBaselineIsPresent ==
    (InCycle /\ ~force_update /\ before.content # None) =>
        /\ pc \notin {"save_baseline", "write_check_baseline"}
        /\ pc = "return" => result # "established"

\* C17: two targets with the same URL get the same storage key, whatever
\* their names, selectors, intervals and active flags are, so looking both
\* up makes one directory.
C17_KeyFromUrlOnly ==
    (pc = "keyed" /\ sites[1].url = sites[2].url) =>
        /\ get_site_data_path(sites[1]) = get_site_data_path(sites[2])
        /\ Cardinality(DOMAIN store) = 1

C17_Witness ==
    /\ pc = "keyed"
    /\ sites[1].url = sites[2].url
    /\ sites[1].name # sites[2].name
    /\ sites[1].selector # sites[2].selector
    /\ sites[1].check_interval # sites[2].check_interval
    /\ Cardinality(DOMAIN store) = 1

\* C18: no failure of one target's cycle ends the process, a failed write
\* of any slot included, and at the end of a pass every active target of
\* the list has been checked.
C18_ErrorContainment ==
    /\ pc # "crashed"
    /\ PassEnd => \A n \in 1..Len(sites) : sites[n].active => passlog[n] # None

\* C19: a cycle that was to store a new snapshot and whose write of it
\* failed ends with the target's record as it was before the cycle, the old
\* baseline included.
C19_FailedSnapshotWriteLeavesRecord ==
    ( /\ pc = "return"
      /\ result \in {"established", "changed"}
      /\ store[key].content # extracted_content ) =>
        /\ store[key].content = before.content
        /\ store[key] = before

\* C20: a cycle calls the notifier at most once, only with a non-empty
\* change set and as the step that ends it changed; a cycle that ended
\* changed made exactly one call and a cycle that ended skipped,
\* established or unchanged made none, so calls and changed cycles are
\* equal in number.
C20_NotifyOncePerChange ==
    /\ Len(sent) <= 1
    /\ sent # <<>> =>
        /\ pc = "return"
        /\ result = "changed"
        /\ ~Falsy(diff)
        /\ sent[1].diff = diff
    /\ (pc = "return" /\ result = "changed") => Len(sent) = 1
    /\ \A n \in 1..Len(sites) :
        passlog[n] # None =>
            Len(passlog[n][1].sent) =
                (IF passlog[n][1].outcome = "changed" THEN 1 ELSE 0)
    /\ \A u \in Urls :
        Len(last[u].sent) = (IF last[u].outcome = "changed" THEN 1 ELSE 0)

C20_Witness ==
    /\ pc = "return"
    /\ result = "changed"
    /\ Len(sent) = 1
    /\ sent[1].diff = diff
    /\ last[key].outcome = "established"
    /\ last[key].sent = <<>>
    /\ passlog[1] # None
    /\ passlog[1][1].outcome = "skipped"
    /\ passlog[1][1].sent = <<>>

\* C21: a pass of check_sites without a reset argument begins a cycle only
\* for a target that is due: one whose last check is at least its interval
\* old when the cycle begins.
C21_PassChecksDueOnly ==
    (mode = "check_sites" /\ pc = "fetch" /\ attempt = 0
        /\ before.last_check # None) =>
        clock - before.last_check[1] >= ConfiguredInterval(idx)

\* C22: run_daemon, once started, keeps running until the stop signal: it
\* never returns by itself and never ends on an uncaught exception,
\* whatever the target list and the outcomes of the cycles.
C22_DaemonRunsUntilStopped ==
    /\ mode # "daemon_returned"
    /\ ~(mode = "daemon" /\ pc = "crashed")

\* C23: when the stop signal ends the loop of run_daemon while a cycle is
\* under way, the record of the target being checked is either as it was
\* when the cycle began or holds every slot the cycle writes: no exit
\* leaves a record with only some of the cycle's slots written.
C23_CleanCancellation ==
    [][ (mode = "daemon" /\ mode' = "idle" /\ InCycle) =>
            \/ store[key] = before
            \/ pc \in {"notify", "return"} ]_vars

\* C24: in the loop of run_daemon a cycle begins only when no cycle is
\* under way and only for a target that has not been started in the
\* current tick, and a cycle that is left has ended in one of skipped,
\* unchanged, established and changed and is on the tick's log.
C24_NoOverlap ==
    [][ (mode = "daemon" /\ mode' = "daemon") =>
            /\ checks' # checks =>
                /\ ~InCycle
                /\ InCycle'
                /\ idx' = idx
                /\ passlog[idx] = None
            /\ (InCycle /\ ~InCycle') =>
                /\ result \in {"skipped", "unchanged", "established", "changed"}
                /\ passlog'[idx] # None
                /\ passlog'[idx][1].outcome = result ]_vars

C24_Witness ==
    /\ mode = "daemon"
    /\ pc = "fetch"
    /\ ticks >= 1
    /\ before.last_check # None
    /\ passlog[idx] = None
    /\ last[key].outcome \in {"established", "unchanged", "changed"}

\* C25: no step of a check cycle changes the record of any configured
\* target other than the one being checked.
C25_StorePartition ==
    [][ InCycle =>
            \A n \in 1..Len(sites) :
                n # idx =>
                    store'[get_site_data_path(sites[n])]
                        = store[get_site_data_path(sites[n])] ]_vars

\* C26: normalising a text that is already the result of the normalisation
\* gives it back: normalize(normalize(t)) = normalize(t) for every text t.
C26_NormalizeIdempotent ==
    pc = "renormalized" => previous_content = extracted_content

C26_Witness ==
    /\ pc = "renormalized"
    /\ html_content = Some(<<" ", "a", "\n", " ", "b">>)
    /\ extracted_content = Some(<<"a", " ", "b">>)
    /\ previous_content = extracted_content

\* C27: on the changed path the notifier is dispatched before the stored
\* snapshot is overwritten: when send_notification is about to be called
\* the record still holds the snapshot the cycle compared with, and the
\* cycle ends changed only after both.
C27_NotifyBeforeStore ==
    /\ pc = "notify" => store[key].content = previous_content
    /\ (pc = "return" /\ result = "changed") =>
        /\ Len(sent) = 1
        /\ store[key].content = extracted_content

\* C28: a cycle that was not forced ends in exactly one of skipped,
\* established, unchanged and changed: skipped exactly when the fetch gave
\* nothing; otherwise established exactly when the record had no snapshot
\* when the cycle began; otherwise unchanged when the diff is empty and
\* changed when it is not; and only changed returns True.
C28_TerminalStates ==
    (pc = "return" /\ ~force_update) =>
        /\ result \in {"skipped", "established", "unchanged", "changed"}
        /\ result = "skipped" <=> Falsy(html_content)
        /\ ~Falsy(html_content) =>
            /\ result = "established" <=> before.content = None
            /\ before.content # None =>
                /\ result = "unchanged" <=> diff = None
                /\ result = "changed" <=> diff # None
        /\ CycleRecord(result).returned <=> result = "changed"

\* The selector of the target matches nothing: there is none, or it is a
\* valid one and no element of the document answers to it.
SelectorMisses ==
    \/ site.selector = ""
    \/ /\ site.selector \in ValidSelectors
       /\ SelectNodes(ParseHtml(html_content[1]), site.selector) = <<>>

\* C29: when the selector is empty or matches no element, extract_content
\* returns what it returns for the whole document: the result is that of
\* the same call without a selector, it is normalised text, and without
\* filters it is the normalised visible text of the document, which is not
\* empty unless the document has none.
C29_SelectorFallback ==
    (pc = "extracted" /\ SelectorMisses) =>
        /\ extracted_content =
              Some(extract_content(html_content[1], "", site.ignore_patterns))
        /\ IsNormalized(extracted_content)
        /\ site.ignore_patterns = <<>> =>
              extracted_content =
                  Some(NormalizeSpace(get_text(ParseHtml(html_content[1]))))

C29_Witness ==
    /\ pc = "extracted"
    /\ site.selector = "#content"
    /\ site.ignore_patterns = <<>>
    /\ html_content = Some(<<"<p>", " ", "</p>", "<p>", "Hi">>)
    /\ SelectorMisses
    /\ extracted_content = Some(<<"Hi">>)

\* The patterns of a list that are regular expressions, in the order given.
ValidOnly(ignore_patterns) ==
    SelectSeq(ignore_patterns, LAMBDA pattern : pattern \in ValidPatterns)

RECURSIVE InOrder(_, _)
\* The last pattern applied to what the patterns before it left of content.
InOrder(patterns, content) ==
    IF patterns = <<>> THEN content
    ELSE re_sub_empty(patterns[Len(patterns)],
             InOrder(SubSeq(patterns, 1, Len(patterns) - 1), content))

\* C30: the text extract_content returns is that of the selected content
\* with the filter patterns applied in the order given, each to the output
\* of the one before; a pattern that is no regular expression changes
\* nothing, and the patterns before and after it are applied all the same.
C30_FiltersInOrder ==
    (pc = "extracted" /\ site.selector \in ValidSelectors \cup {""}) =>
        extracted_content =
            Some(NormalizeSpace(get_text(ParseHtml(
                InOrder(ValidOnly(site.ignore_patterns),
                        SelectContent(ParseHtml(html_content[1]), site.selector))))))

C30_Witness ==
    /\ pc = "extracted"
    /\ site.selector = "#content"
    /\ site.ignore_patterns = <<"\\d+", "(", "HelloWorld">>
    /\ html_content =
         Some(<<"<div id=content>", "Hello", "42", "World", " ", "Hi", "</div>">>)
    /\ extracted_content = Some(<<"Hi">>)

\* C31: extract_content returns a text for every document, selector and
\* filter list; when the selection fails (the selector is no CSS selector
\* and soup.select raises) the text is the payload itself, tags, spacing
\* and all, whatever the filters; otherwise it is normalised text.
C31_ExtractorNeverRaises ==
    pc = "extracted" =>
        /\ extracted_content # None
        /\ extracted_content[1] \in Seq(STRING)
        /\ IF site.selector \in ValidSelectors \cup {""}
           THEN IsNormalized(extracted_content)
           ELSE extracted_content = html_content

C31_Witness ==
    /\ pc = "extracted"
    /\ site.selector = "["
    /\ site.ignore_patterns = <<"World">>
    /\ html_content =
         Some(<<"Hello", " ", "<script>", "42", "</script>", "<!--c-->", "World", " ">>)
    /\ extracted_content = html_content

\* C32: the last-diff slot of every record starts absent and changes only
\* in a cycle of its own target on the changed path, to the diff of that
\* cycle; a cycle that ends changed leaves its diff in the slot, and a
\* cycle that ends skipped, established (a reset included) or unchanged
\* leaves the slot as it found it.  So the slot is absent until a cycle
\* ends changed and is the diff of the latest such cycle afterwards.
C32_LastDiffSlot ==
    /\ \A u \in Urls : store[u].diff = None
    /\ [][ /\ \A u \in Urls :
                store'[u].diff # store[u].diff =>
                    /\ u = key
                    /\ pc = "save_diff"
                    /\ ~force_update
                    /\ ~Falsy(diff)
                    /\ store'[u].diff = diff
           /\ pc = "return" =>
                IF result = "changed"
                THEN store[key].diff = diff /\ diff # None
                ELSE store[key].diff = before.diff ]_vars

C32_Witness ==
    /\ pc = "return"
    /\ force_update
    /\ result = "established"
    /\ last[key].outcome = "changed"
    /\ before.diff # None
    /\ store[key].diff = before.diff
    /\ store[key].content # before.content

\* C33: in run_daemon a cycle that ends skipped leaves the last-check
\* timestamp of its target as it was, and when the next tick takes its
\* now, every target whose cycle ended skipped in the tick before is due
\* by the test of line 696, whatever its interval; the loop then begins
\* its cycle again and never passes it over.
C33_SkippedStaysDue ==
    [][ mode = "daemon" =>
            /\ (pc = "return" /\ result = "skipped") =>
                    store'[key].last_check = before.last_check
            /\ (pc = "tick" /\ pc' = "loop") =>
                    \A n \in 1..Len(sites) :
                        (passlog[n] # None /\ passlog[n][1].outcome = "skipped") =>
                            now' - last_check_time(n) >= effective_interval(n)
            /\ (pc = "loop" /\ pc' = "loop" /\ idx' = idx + 1 /\ site.active) =>
                    ~IsDue(idx) ]_vars

C33_Witness ==
    /\ mode = "daemon"
    /\ pc = "fetch"
    /\ ticks = 2
    /\ checks = 3
    /\ failures = 3
    /\ before.last_check # None
    /\ now - before.last_check[1] >= 2 * SleepSecs
    /\ effective_interval(idx) = 60

\* C34: an attempt that answers with an empty body ends the fetch there,
\* with no further attempt and no retry delay, and the cycle ends skipped
\* as after a fetch that failed on every attempt: no slot of the record is
\* written, the timestamp included, and nothing is sent.
C34_EmptyPayloadSkipped ==
    /\ [][ (pc = "fetch" /\ html_content' = Some(<<>>)) =>
                /\ pc' = "return"
                /\ result' = "skipped"
                /\ attempt' = attempt
                /\ clock' = clock
                /\ store' = store ]_vars
    /\ [](html_content = Some(<<>>) =>
                /\ pc = "return"
                /\ result = "skipped"
                /\ store[key] = before
                /\ sent = <<>>
                /\ CycleRecord(result).outcome = "skipped"
                /\ ~CycleRecord(result).returned
                /\ CycleRecord(result).after = CycleRecord(result).before)

C34_Witness ==
    /\ pc = "return"
    /\ html_content = Some(<<>>)
    /\ attempt = 0
    /\ result = "skipped"
    /\ before.content = Some(<<"Hello">>)
    /\ before.last_check # None
    /\ store[key] = before

\* C35: a reset begins one forced cycle, for the first list entry whose
\* name or URL is the given one up to case, active or not; a name that
\* matches no entry begins none.  When the fetch gives content the cycle
\* ends established and returns False with the raw payload, the current
\* extraction and the current time in the record, no diff computed or
\* stored and nothing sent; when it gives none the record is as it was.
\* No step of a reset changes the record of any other key, and the
\* command is over when that one cycle returns.
C35_Reset ==
    /\ [][ /\ (mode # "reset" /\ mode' = "reset") =>
                /\ \E reset_site \in ResetNames :
                    /\ SiteMatches(idx', reset_site)
                    /\ \A k \in 1..(idx' - 1) : ~SiteMatches(k, reset_site)
                /\ pc' = "fetch"
                /\ force_update'
           /\ mode = "reset" =>
                /\ \A u \in Urls : u # key => store'[u] = store[u]
                /\ idx' = idx \/ mode' = "idle"
                /\ checks' = checks
                /\ pc = "return" => mode' = "idle" ]_vars
    /\ []((mode = "reset" /\ pc = "return") =>
            /\ force_update
            /\ ~CycleRecord(result).returned
            /\ sent = <<>>
            /\ diff = None
            /\ store[key].diff = before.diff
            /\ IF Falsy(html_content)
               THEN result = "skipped" /\ store[key] = before
               ELSE /\ result = "established"
                    /\ store[key].raw = html_content
                    /\ store[key].content = extracted_content
                    /\ store[key].last_check = Some(clock))

C35_Witness ==
    /\ mode = "reset"
    /\ pc = "return"
    /\ result = "established"
    /\ idx = 1
    /\ ~sites[1].active
    /\ sites[2].name = "a"
    /\ before.content = Some(<<"Hello">>)
    /\ store[key].content = Some(<<"Hello", " ", "World">>)
    /\ store[sites[2].url] = EmptyRecord

\* C36: when the loop of run_daemon comes to an active target whose
\* last_check.json is unreadable, malformed or without a timestamp, the
\* target is taken for due: the step the loop takes there begins its
\* cycle (or is the stop signal); the tick does not fail and the target
\* is not passed over.
C36_MalformedIsDue ==
    [][ ( /\ mode = "daemon" /\ pc = "loop"
          /\ idx <= Len(sites)
          /\ site.active
          /\ IsGarbled(store[key].last_check) ) =>
            \/ pc' = "fetch" /\ idx' = idx /\ mode' = "daemon"
            \/ mode' = "idle" ]_vars

\* C37: a tick of run_daemon is over only at the end of the list, and
\* then every active target that is due by the test of line 696 has had
\* its cycle run to a terminal state in this tick: no tick ends, by the
\* loop reaching the end of the list or by the process ending, with an
\* active due target left without its cycle.
C37_Progress ==
    (mode = "daemon" /\ (pc = "crashed" \/ (pc = "loop" /\ idx > Len(sites)))) =>
        /\ pc # "crashed"
        /\ \A n \in 1..Len(sites) :
            (sites[n].active /\ passlog[n] = None) =>
                (TimestampIsNumber(n) /\ ~IsDue(n))

\* C38: the raw slot of every record starts absent and changes only in the
\* write that follows a fetch that gave content, before the extraction, to
\* the payload of that fetch; from then to the end of the cycle, whether it
\* ends established, unchanged or changed, the slot holds that payload,
\* and a skipped cycle leaves the slot as it found it.  So the slot holds
\* the payload of the latest fetch of the target that gave content, also
\* when the cycle left the stored snapshot alone.
C38_RawPayloadSlot ==
    /\ \A u \in Urls : store[u].raw = None
    /\ [][ \A u \in Urls :
                store'[u].raw # store[u].raw =>
                    /\ u = key
                    /\ pc = "save_raw"
                    /\ ~Falsy(html_content)
                    /\ extracted_content = None
                    /\ store'[u].raw = html_content ]_vars
    /\ [](LET written ==
                  \/ pc \in {"compare", "save_baseline", "write_check_baseline",
                             "write_check", "save_diff", "save_content", "notify"}
                  \/ (pc = "return" /\ result \in {"established", "unchanged", "changed"})
          IN  /\ (written => (store[key].raw = html_content))
              /\ ((pc = "return" /\ result = "skipped") => (store[key].raw = before.raw)))

C38_Witness ==
    /\ pc = "return"
    /\ result = "unchanged"
    /\ html_content = Some(<<"<div id=content>", "Hello", " ", "World", "</div>">>)
    /\ before.raw = Some(<<"<div id=content>", "Hello", "</div>">>)
    /\ store[key].raw = html_content
    /\ store[key].content = before.content

====
